---- MODULE Spec2Model ----
(***************************************************************************)
(* Dreamwalkers / AI-storyteller-v2: the per-turn response flow of the     *)
(* backend (/chat/send) as the repository documents it, the relationship   *)
(* updater, and the State Updater's single-writer discipline.              *)
(*                                                                         *)
(* Relationship scalars are fixed-point numbers in tenths: 0.0 .. 1.0 is   *)
(* 0 .. Scale, a change of 0.3 is 3.                                       *)
(***************************************************************************)
EXTENDS Integers, Sequences, FiniteSets, TLC

(***************************************************************************)
(* Bounds of the model.                                                    *)
(***************************************************************************)
MaxTurns == 2
MaxReq == 4
NumMemories == 12

(***************************************************************************)
(* Program constants.                                                      *)
(***************************************************************************)
Scale == 10
MaxDelta == 3
MaxFamiliarityDelta == 2
min_importance == 7
max_memory_flags == 10
MaxImportance == 10

UserCharacter == "user"
NPCs == {"alex", "jade"}
Characters == NPCs \cup {UserCharacter}

NoText == [kind |-> "none"]
NoResponse == [status |-> 0]
NoContext == [characters |-> {}]

VARIABLES
    stage,              \* step of send_message the request is at
    turn,               \* number of requests received so far
    conversations,      \* Conversation table: speaker_type of every entry
    present,            \* scene_characters: who is in the scene
    context,            \* the context string built by ContextBuilder
    todo,               \* characters the decision loop has not visited yet
    character_decisions,\* list of decisions passed to the story prompt
    decision_calls,     \* per character: model calls made for its decision
    decision_malformed, \* per character: unparsable responses received
    generated,          \* the narrative text produced by the large model
    gen_calls,          \* large-model generations run for this turn
    verdict,            \* outcome of content validation
    issues,             \* validation issues found in the generated text
    logs,               \* log entries written during this turn
    relationship,       \* Relationship row of the user and an NPC
    relationship_updates,\* changes applied to the row by this turn
    story_flags_set,    \* flags set by the progression check of this turn
    response,           \* ChatResponse returned to the caller
    analysis,           \* changes the interaction analysis asked for
    rows,               \* per playthrough: its Relationship and CharacterState rows
    lock_holder,        \* per playthrough: the State Update holding its lock
    upd_pc,             \* per State Update: the step it is at
    upd_effect,         \* per State Update: the effects of its Turn
    upd_local,          \* per State Update: the row it has read
    upd_applied,        \* per State Update: the kinds of effect applied so far
    timeouts,           \* model calls of this turn that timed out
    character_rows,     \* characters that have a Character row in the playthrough
    memory_flags,       \* memory_flags table of the playthrough
    torn_down,          \* the client that sent the request has gone away
    replay,             \* a Relationship row a Turn's effects are re-applied to
    api_calls,          \* apiRequest: what fetch gave each call and how the call ended
    SettingsComponent,  \* SettingsComponent.settings
    localStorage,       \* the item dreamwalkers_settings
    API_CONFIG,         \* API_CONFIG.baseUrl
    dialog,             \* the last confirm() dialog and its answer
    admin_requests,     \* reset and clear requests sent to the backend
    status,             \* tester-reset-status, test-data-status, btn-clear-testdata
    AppState,           \* AppState.currentPlaythrough, AppState.currentSession
    screen,             \* the screen that is active
    loads,              \* calls of loadPlaythrough and the await each is at
    session_count,      \* sessions table: sessions each playthrough has
    ChatComponent,      \* currentPlaythrough, currentSession, isLoading
    chat_messages,      \* #chat-messages: the messages displayed
    controls,           \* btn-send, btn-generate-more, user-input: disabled or not
    user_input,         \* value of #user-input
    chat_requests,      \* chat requests sent and not settled
    TesterComponent     \* currentPlaythrough, currentSession, playthroughData, view

vars == <<stage, turn, conversations, present, context, todo,
          character_decisions, decision_calls, decision_malformed,
          generated, gen_calls, verdict, issues, logs, relationship,
          relationship_updates, story_flags_set, response, analysis,
          rows, lock_holder, upd_pc, upd_effect, upd_local, upd_applied,
          timeouts, character_rows, memory_flags, torn_down, replay,
          api_calls, SettingsComponent, localStorage, API_CONFIG, dialog,
          admin_requests, status, AppState, screen, loads, session_count,
          ChatComponent, chat_messages, controls, user_input, chat_requests,
          TesterComponent>>

updaterVars == <<rows, lock_holder, upd_pc, upd_effect, upd_local, upd_applied>>

\* state no step of a turn or of a State Update writes
\* the state of the client (the Electron renderer)
clientVars ==
    <<api_calls, SettingsComponent, localStorage, API_CONFIG, dialog,
      admin_requests, status, AppState, screen, loads, session_count,
      ChatComponent, chat_messages, controls, user_input, chat_requests,
      TesterComponent>>

staticVars == <<character_rows, memory_flags, torn_down, replay, clientVars>>

(***************************************************************************)
(* Relationship updater (relationships/updater.py).                        *)
(***************************************************************************)
Min(a, b) == IF a < b THEN a ELSE b
Max(a, b) == IF a > b THEN a ELSE b
Abs(a) == IF a < 0 THEN 0 - a ELSE a

ClampDelta_Unlimited(d) == d

\* a requested trust/affection/closeness change, limited to -0.3 .. +0.3
ClampDelta(d) == Max(0 - MaxDelta, Min(MaxDelta, d))

ClampFamiliarity_Signed(d) ==
    IF d < 0 - MaxFamiliarityDelta THEN 0 - MaxFamiliarityDelta
    ELSE IF d > MaxFamiliarityDelta THEN MaxFamiliarityDelta ELSE d

\* a requested familiarity change, limited to 0.0 .. +0.2 (only increases)
ClampFamiliarity(d) == Max(0, Min(MaxFamiliarityDelta, d))

\* a relationship value is kept in 0.0 .. 1.0
ClampUnit(v) == Max(0, Min(Scale, v))

update_relationship_metrics(row, d) ==
    [trust       |-> ClampUnit(row.trust + ClampDelta(d.trust)),
     affection   |-> ClampUnit(row.affection + ClampDelta(d.affection)),
     familiarity |-> ClampUnit(row.familiarity + ClampFamiliarity(d.familiarity)),
     closeness   |-> ClampUnit(row.closeness + ClampDelta(d.closeness))]

RowDiff(new, old) ==
    [trust       |-> new.trust - old.trust,
     affection   |-> new.affection - old.affection,
     familiarity |-> new.familiarity - old.familiarity,
     closeness   |-> new.closeness - old.closeness]

ZeroDelta == [trust |-> 0, affection |-> 0, familiarity |-> 0, closeness |-> 0]

\* the relationship of the test story: trust 0.2, affection 0.3, familiarity 0.6
TemplateRelationship == [trust |-> 2, affection |-> 3, familiarity |-> 6, closeness |-> 5]

Requests == (0 - MaxReq) .. MaxReq

\* changes the interaction analysis may ask for in the turn pipeline
AnalysisSamples ==
    { ZeroDelta,
      [trust |-> MaxReq, affection |-> MaxReq, familiarity |-> MaxReq, closeness |-> MaxReq],
      [trust |-> 0 - MaxReq, affection |-> 0 - MaxReq, familiarity |-> 0 - MaxReq, closeness |-> 0 - MaxReq],
      [trust |-> 1, affection |-> 0 - 1, familiarity |-> 1, closeness |-> 0] }

(***************************************************************************)
(* Character decision layer (llm_manager.analyze_character_decision).      *)
(***************************************************************************)
Keywords == {"refuse"}

\* what a character may decide; "forbidden" is an action of the character's
\* would_never_do list
Actions == {"comply", "refuse", "forbidden"}

DecisionFields(a, dlg, emo, r) ==
    [action |-> a, dialogue |-> dlg, emotion |-> emo, refuses |-> r]

NoFields == DecisionFields("none", "", "none", FALSE)

\* raw text returned by the small model: a JSON object, or text that is not JSON
DecisionResponses ==
    { [json |-> TRUE, fields |-> DecisionFields("comply", "line", "calm", FALSE), words |-> {}],
      [json |-> TRUE, fields |-> DecisionFields("refuse", "line", "angry", TRUE), words |-> {}],
      [json |-> TRUE, fields |-> DecisionFields("forbidden", "line", "calm", FALSE), words |-> {}] }
    \cup { [json |-> FALSE, fields |-> NoFields, words |-> w] : w \in SUBSET Keywords }

\* the keyword-based fallback parser
parse_decision_text(r) ==
    IF "refuse" \in r.words
    THEN DecisionFields("refuse", "", "neutral", TRUE)
    ELSE DecisionFields("comply", "", "neutral", FALSE)

\* json.loads(response), falling back to the keyword parser on JSONDecodeError
analyze_character_decision(r) == IF r.json THEN r.fields ELSE parse_decision_text(r)

Decision(c, f) ==
    [character_name |-> c, action |-> f.action, dialogue |-> f.dialogue,
     emotion |-> f.emotion, refuses |-> f.refuses]

DecisionsOf(c) ==
    { i \in 1..Len(character_decisions) : character_decisions[i].character_name = c }

HasDecision(c) == DecisionsOf(c) # {}

DecisionFor(c) == character_decisions[CHOOSE i \in DecisionsOf(c) : TRUE]

\* the decision loop skips the user's character
SkipsDecision(c) == c = UserCharacter

\* the loop over the scene's characters ends when every one has been visited
LoopDone_Partial(remaining) == TRUE

LoopDone(remaining) == remaining = {}

(***************************************************************************)
(* Story generation and content validation.                                *)
(***************************************************************************)
Shown == Actions \cup {"absent"}

\* a generated narrative, by the features validation looks at: whether it
\* speaks or acts for the user's character and what it shows each NPC doing
Texts == [kind : {"story"}, userControl : BOOLEAN, shows : [NPCs -> Shown]]

\* the narratives the model may write for a scene: only characters of the
\* scene appear in it
TextsFor(scene) == { t \in Texts : \A c \in NPCs \ scene : t.shows[c] = "absent" }

Severity(issue) ==
    CASE issue = "user_character_control" -> "critical"
      [] issue = "would_never_do" -> "critical"
      [] issue = "not_following_decisions" -> "warning"

ValidateContent(text, decisions) ==
    (IF text.userControl THEN {"user_character_control"} ELSE {})
    \cup (IF \E c \in NPCs : text.shows[c] = "forbidden" THEN {"would_never_do"} ELSE {})
    \cup (IF \E i \in 1..Len(decisions) :
                text.shows[decisions[i].character_name] \notin {"absent", decisions[i].action}
          THEN {"not_following_decisions"} ELSE {})

(***************************************************************************)
(* State Updater: the State Updates of successive Turns, serialized per    *)
(* playthrough by a lock.                                                  *)
(***************************************************************************)
Playthroughs == {"p1", "p2"}

\* playthrough_id of the Story's template rows
NoPlaythrough == "NULL"

StoreKeys == Playthroughs \cup {NoPlaythrough}

\* the State Updates in flight: Turn 1 and Turn 2 of p1, Turn 1 of p2
Updates == {<<"p1", 1>>, <<"p1", 2>>, <<"p2", 1>>}

PlaythroughOf(u) == u[1]

NoUpdate == <<"none", 0>>

TemplateState == [stress |-> 3]

\* the kinds of effect of a State Update, in the order they are applied
UpdateOrder ==
    <<"relationships", "character_state", "character_memories",
      "character_knowledge", "character_goals", "memory_flags",
      "character_beliefs", "scene_state">>

UpdateKinds == { UpdateOrder[i] : i \in 1..Len(UpdateOrder) }

Rank(k) == CHOOSE i \in 1..Len(UpdateOrder) : UpdateOrder[i] = k

NoEffect == [relationship |-> ZeroDelta, stress |-> 0, kinds |-> {}]

\* what happened in a Turn besides the relationship and state changes:
\* everything, or only a goal and the scene
KindSamples ==
    { UpdateKinds, {"relationships", "character_state", "character_goals", "scene_state"} }

\* the state effects a Turn may carry
Effects ==
    { [relationship |-> d, stress |-> d.trust, kinds |-> ks] :
          d \in AnalysisSamples \ {ZeroDelta}, ks \in KindSamples }

UpdateCharacterState(row, e) == [stress |-> ClampUnit(row.stress + e.stress)]

ApplyEffect(r, e) ==
    [r EXCEPT !.relationship = update_relationship_metrics(r.relationship, e.relationship),
              !.character_state = UpdateCharacterState(r.character_state, e)]

\* the rows of the Story template and of a playthrough created from it
TemplateRows ==
    [exists |-> TRUE, relationship |-> TemplateRelationship,
     character_state |-> TemplateState, would_never_do |-> {"forbidden"}]

\* a playthrough that was not created yet has no rows
NoRows ==
    [exists |-> FALSE, relationship |-> ZeroDelta,
     character_state |-> [stress |-> 0], would_never_do |-> {}]

RowsOf_Unscoped(p) == StoreKeys

\* the rows a write of playthrough p addresses: WHERE playthrough_id = p
RowsOf(p) == {p}

WriteRows(p, field, value) ==
    [q \in StoreKeys |->
        IF q \in RowsOf(p) /\ rows[q].exists
        THEN IF field = "relationship"
             THEN [rows[q] EXCEPT !.relationship = value]
             ELSE [rows[q] EXCEPT !.character_state = value]
        ELSE rows[q]]

\* a State Update may take the lock of its playthrough when nobody holds it
CanAcquire_NoLock(p) == TRUE

CanAcquire(p) == lock_holder[p] = NoUpdate

\* the effects of a State Update that are still to be applied
Pending(u) == { k \in upd_effect[u].kinds : \A i \in 1..Len(upd_applied[u]) : upd_applied[u][i] # k }

NextKind_Last(pending) == CHOOSE k \in pending : \A j \in pending : Rank(k) >= Rank(j)

\* the pending effect that comes first in the priority order
NextKind(pending) == CHOOSE k \in pending : \A j \in pending : Rank(k) <= Rank(j)

UpdaterIdle ==
    /\ rows = [q \in StoreKeys |-> IF q = NoPlaythrough THEN TemplateRows ELSE NoRows]
    /\ lock_holder = [p \in Playthroughs |-> NoUpdate]
    /\ upd_pc = [u \in Updates |-> "absent"]
    /\ upd_effect = [u \in Updates |-> NoEffect]
    /\ upd_local = [u \in Updates |-> TemplateRows]
    /\ upd_applied = [u \in Updates |-> <<>>]

pipelineVars ==
    <<stage, turn, conversations, present, context, todo, character_decisions,
      decision_calls, decision_malformed, generated, gen_calls, verdict,
      issues, logs, relationship, relationship_updates, story_flags_set,
      response, analysis, timeouts, character_rows, memory_flags, torn_down,
      replay, clientVars>>

\* a playthrough is started: the template rows are copied and given its id
create_playthrough(p) ==
    /\ ~rows[p].exists
    /\ rows' = [rows EXCEPT ![p] = rows[NoPlaythrough]]
    /\ UNCHANGED <<lock_holder, upd_pc, upd_effect, upd_local, upd_applied>>
    /\ UNCHANGED pipelineVars

\* a Turn was released: its State Update is handed over, fire-and-forget
SubmitUpdate(u) ==
    /\ upd_pc[u] = "absent"
    /\ rows[PlaythroughOf(u)].exists
    /\ u[2] > 1 => upd_pc[<<u[1], u[2] - 1>>] # "absent"
    /\ \E e \in Effects : upd_effect' = [upd_effect EXCEPT ![u] = e]
    /\ upd_pc' = [upd_pc EXCEPT ![u] = "queued"]
    /\ UNCHANGED <<rows, lock_holder, upd_local, upd_applied>>
    /\ UNCHANGED pipelineVars

AcquireLock(u) ==
    /\ upd_pc[u] = "queued"
    /\ CanAcquire(PlaythroughOf(u))
    /\ lock_holder' = [lock_holder EXCEPT ![PlaythroughOf(u)] = u]
    /\ upd_pc' = [upd_pc EXCEPT ![u] = "read_relationship"]
    /\ UNCHANGED <<rows, upd_effect, upd_local, upd_applied>>
    /\ UNCHANGED pipelineVars

ReadRelationship(u) ==
    /\ upd_pc[u] = "read_relationship"
    /\ upd_local' = [upd_local EXCEPT ![u].relationship = rows[PlaythroughOf(u)].relationship]
    /\ upd_pc' = [upd_pc EXCEPT ![u] = "write_relationship"]
    /\ UNCHANGED <<rows, lock_holder, upd_effect, upd_applied>>
    /\ UNCHANGED pipelineVars

WriteRelationship(u) ==
    /\ upd_pc[u] = "write_relationship"
    /\ rows' = WriteRows(PlaythroughOf(u), "relationship",
                    update_relationship_metrics(upd_local[u].relationship, upd_effect[u].relationship))
    /\ upd_applied' = [upd_applied EXCEPT ![u] = Append(@, NextKind(Pending(u)))]
    /\ upd_pc' = [upd_pc EXCEPT ![u] = "read_state"]
    /\ UNCHANGED <<lock_holder, upd_effect, upd_local>>
    /\ UNCHANGED pipelineVars

ReadCharacterState(u) ==
    /\ upd_pc[u] = "read_state"
    /\ upd_local' = [upd_local EXCEPT ![u].character_state = rows[PlaythroughOf(u)].character_state]
    /\ upd_pc' = [upd_pc EXCEPT ![u] = "write_state"]
    /\ UNCHANGED <<rows, lock_holder, upd_effect, upd_applied>>
    /\ UNCHANGED pipelineVars

WriteCharacterState(u) ==
    /\ upd_pc[u] = "write_state"
    /\ rows' = WriteRows(PlaythroughOf(u), "character_state",
                    UpdateCharacterState(upd_local[u].character_state, upd_effect[u]))
    /\ upd_applied' = [upd_applied EXCEPT ![u] = Append(@, NextKind(Pending(u)))]
    /\ upd_pc' = [upd_pc EXCEPT ![u] =
                     IF Pending(u) \ {NextKind(Pending(u))} = {} THEN "release" ELSE "apply_rest"]
    /\ UNCHANGED <<lock_holder, upd_effect, upd_local>>
    /\ UNCHANGED pipelineVars

\* memories, knowledge, goals, flags, beliefs and the scene, one kind a step
ApplyNextEffect(u) ==
    /\ upd_pc[u] = "apply_rest"
    /\ upd_applied' = [upd_applied EXCEPT ![u] = Append(@, NextKind(Pending(u)))]
    /\ upd_pc' = [upd_pc EXCEPT ![u] =
                     IF Pending(u) \ {NextKind(Pending(u))} = {} THEN "release" ELSE "apply_rest"]
    /\ UNCHANGED <<rows, lock_holder, upd_effect, upd_local>>
    /\ UNCHANGED pipelineVars

ReleaseLock(u) ==
    /\ upd_pc[u] = "release"
    /\ lock_holder' = [lock_holder EXCEPT ![PlaythroughOf(u)] =
                          IF @ = u THEN NoUpdate ELSE @]
    /\ upd_pc' = [upd_pc EXCEPT ![u] = "done"]
    /\ UNCHANGED <<rows, upd_effect, upd_local, upd_applied>>
    /\ UNCHANGED pipelineVars

(***************************************************************************)
(* Memory flags in the context (ContextBuilder._get_memory_flags_context).  *)
(***************************************************************************)
MemoryIds == 1..NumMemories

\* a memory_flags table: importance 1..10, and how recent and how relevant to
\* the scene each memory is
MemoryTable(base, a, b) ==
    [i \in MemoryIds |->
        [importance |-> base + ((i * a + b) % (MaxImportance + 1 - base)),
         recency    |-> 1 + ((i + b) % 3),
         relevance  |-> 1 + ((i * (b + 1)) % 3)]]

MemoryTables ==
    { MemoryTable(base, a, b) : base \in {1, min_importance}, a \in {1, 3, 7}, b \in 0..3 }

\* the memory flags of the test story
TemplateMemoryFlags == MemoryTable(1, 1, 0)

\* _get_memory_flags_context: the flags of importance min_importance or more,
\* the most important first, at most max_memory_flags of them; the order among
\* flags of equal importance is whatever the query returns
get_memory_flags_context(table) ==
    LET eligible == { i \in DOMAIN table : table[i].importance >= min_importance }
        limit == Min(max_memory_flags, Cardinality(eligible))
    IN  { sel \in SUBSET eligible :
              /\ Cardinality(sel) = limit
              /\ \A i \in sel, j \in eligible \ sel :
                     table[i].importance >= table[j].importance }

(***************************************************************************)
(* The client: the Electron renderer (api.js, renderer.js, components).    *)
(***************************************************************************)
\* JavaScript null, for a playthrough and for a session object
null == "null"

NoSession == [id |-> 0, playthrough_id |-> null]

\* --- api.js: apiRequest -------------------------------------------------
undefined == "undefined"

\* bodies a response may carry: JSON or not, with or without a detail field
OkBodies ==
    [json : BOOLEAN, detail : {undefined}, data : {"data1", "data2"}]

ErrorBodies ==
    [json : BOOLEAN, detail : {undefined, "", "Session not found"}, data : {undefined}]

\* what fetch(url, fetchOptions) gives: a rejection (network failure) or a
\* response, OK or not
FetchOutcomes ==
    { [kind |-> "rejected", ok |-> FALSE, status_code |-> 0,
       body |-> [json |-> FALSE, detail |-> undefined, data |-> undefined]] }
    \cup { [kind |-> "response", ok |-> TRUE, status_code |-> 200, body |-> b] :
             b \in OkBodies }
    \cup { [kind |-> "response", ok |-> FALSE, status_code |-> s, body |-> b] :
             s \in {404, 500}, b \in ErrorBodies }

\* `HTTP ${response.status}: ${response.statusText}`
HttpMessage(status_code) ==
    CASE status_code = 404 -> "HTTP 404: Not Found"
      [] status_code = 500 -> "HTTP 500: Internal Server Error"
      [] OTHER -> "HTTP"

Truthy(v) == v \notin {undefined, ""}

Return(data) == [outcome |-> "return", data |-> data, message |-> undefined]

Throw(message) == [outcome |-> "throw", data |-> undefined, message |-> message]

\* response.json().catch(() => ({})): the detail of the error body, if any
ErrorDetail(body) == IF body.json THEN body.detail ELSE undefined

apiRequest_NoOkCheck(f) ==
    IF f.kind = "rejected"
    THEN Throw("Failed to fetch")
    ELSE IF ~f.body.json
         THEN Throw("Unexpected token")
         ELSE Return(f.body.data)

apiRequest(f) ==
    IF f.kind = "rejected"
    THEN Throw("Failed to fetch")
    ELSE IF ~f.ok
         THEN Throw(IF Truthy(ErrorDetail(f.body))
                    THEN ErrorDetail(f.body)
                    ELSE HttpMessage(f.status_code))
         ELSE IF ~f.body.json
              THEN Throw("Unexpected token")
              ELSE Return(f.body.data)

\* how a call of the API client may end
ApiResults == { apiRequest(f) : f \in FetchOutcomes }

ApiErrors == { r \in ApiResults : r.outcome = "throw" }

\* the two ways a call ends for a caller that does not look at the message
ApiOutcomes == { r.outcome : r \in ApiResults }

\* --- components/settings.js: SettingsComponent ---------------------------
DefaultUrl == "http://localhost:8000"

SettingKeys == {"showRelationships", "showFlags", "apiUrl"}

DefaultSettings ==
    [showRelationships |-> TRUE, showFlags |-> FALSE, apiUrl |-> DefaultUrl]

\* values the URL field may be given
Urls ==
    {DefaultUrl, "http://localhost:9000", "http://127.0.0.1:8000",
     "http://192.168.1.10:8000", ""}

SettingValues(key) == IF key = "apiUrl" THEN Urls ELSE BOOLEAN

\* JSON text of a value: the literals true and false, or a quoted string
BoolToken(b) == [type |-> "literal", text |-> IF b THEN "true" ELSE "false"]

StringToken(s) == [type |-> "string", text |-> s]

TokensOf(key) ==
    IF key = "apiUrl" THEN { StringToken(u) : u \in Urls }
                      ELSE { BoolToken(b) : b \in BOOLEAN }

JSON_stringify_Lossy(settings) ==
    [kind |-> "json", value |-> [k \in {"apiUrl"} |-> StringToken(settings[k])]]

\* JSON.stringify(this.settings): the text of every key of the object
JSON_stringify(settings) ==
    [kind |-> "json",
     value |-> [k \in DOMAIN settings |->
                  IF k = "apiUrl" THEN StringToken(settings[k])
                                  ELSE BoolToken(settings[k])]]

\* JSON.parse(saved), for a text that parses
JSON_parse(saved) ==
    [k \in DOMAIN saved.value |->
        IF saved.value[k].type = "string" THEN saved.value[k].text
                                          ELSE saved.value[k].text = "true"]

\* { ...a, ...b }
Spread(a, b) ==
    [k \in DOMAIN a \cup DOMAIN b |-> IF k \in DOMAIN b THEN b[k] ELSE a[k]]

NoItem == [kind |-> "null"]

CorruptItem == [kind |-> "corrupt"]

\* items a previous run may have left under dreamwalkers_settings
StoredItems ==
    {NoItem, CorruptItem}
    \cup UNION { { [kind |-> "json", value |-> v] :
                     v \in { w \in [ks -> UNION { TokensOf(k) : k \in SettingKeys }] :
                               \A k \in ks : w[k] \in TokensOf(k) } } :
                   ks \in SUBSET SettingKeys }

\* loadSettings(): the settings after it, from the settings before it and the item
loadSettings(settings, saved) ==
    IF saved.kind = "json" THEN Spread(settings, JSON_parse(saved)) ELSE settings

\* saveSettings(): the item after it
saveSettings(settings) == JSON_stringify(settings)

\* --- renderer.js, ChatComponent, TesterComponent -------------------------
\* a session object of the backend: its id and the playthrough it belongs to
Session(p, n) == [id |-> n, playthrough_id |-> p]

\* the latest-session endpoint: the session created last for the playthrough
LatestSession(count, p) == Session(p, count[p])

\* text typed into #user-input, as its characters
InputSamples == { <<>>, <<" ">>, <<" ", "h", "i", " ">> }

IsSpace(ch) == ch = " "

RECURSIVE trimStart(_)
trimStart(str) ==
    IF str # <<>> /\ IsSpace(Head(str)) THEN trimStart(Tail(str)) ELSE str

RECURSIVE trimEnd(_)
trimEnd(str) ==
    IF str # <<>> /\ IsSpace(str[Len(str)])
    THEN trimEnd(SubSeq(str, 1, Len(str) - 1))
    ELSE str

trim_None(str) == str

\* String.prototype.trim
trim(str) == trimEnd(trimStart(str))

\* a message of the chat display, with the session its content is of
ChatMessage(type, speaker, text, session) ==
    [type |-> type, speaker |-> speaker, text |-> text, session |-> session]

\* setLoading(loading): the controls after it
ControlsFor(loading) ==
    [btn_send |-> IF loading THEN "disabled" ELSE "enabled",
     btn_generate_more |-> IF loading THEN "disabled" ELSE "enabled",
     user_input |-> IF loading THEN "disabled" ELSE "enabled",
     footer_status |-> IF loading THEN "AI is thinking..." ELSE "Ready"]

NoDialog == [action |-> "none", answer |-> FALSE]

NoContainer == [kind |-> "empty", playthrough |-> null]

ApiIdle == api_calls = <<>>

SettingsIdle ==
    /\ SettingsComponent = [settings |-> DefaultSettings]
    /\ localStorage = NoItem
    /\ API_CONFIG = [baseUrl |-> DefaultUrl, timeout |-> 60000]

AdminIdle ==
    /\ dialog = NoDialog
    /\ admin_requests = <<>>
    /\ status = [reset |-> "", clear |-> "", btn_clear |-> "enabled", timer |-> FALSE]

ChatIdle ==
    /\ ChatComponent = [currentPlaythrough |-> null, currentSession |-> NoSession,
                        isLoading |-> FALSE]
    /\ chat_messages = <<>>
    /\ controls = ControlsFor(FALSE)
    /\ user_input = <<>>
    /\ chat_requests = <<>>

AppIdle ==
    /\ AppState = [currentPlaythrough |-> null, currentSession |-> NoSession]
    /\ loads = <<>>
    /\ session_count = [p \in Playthroughs |-> 0]

TesterIdle ==
    TesterComponent = [currentPlaythrough |-> null, currentSession |-> NoSession,
                       currentView |-> "characters", playthroughData |-> null,
                       container |-> NoContainer]

\* the client after DOMContentLoaded, before any story is selected
ClientIdle ==
    /\ ApiIdle
    /\ SettingsIdle
    /\ AdminIdle
    /\ ChatIdle
    /\ AppIdle
    /\ TesterIdle
    /\ screen = "stories"

(***************************************************************************)
(* Initial state: a playthrough created from the test story, its opening   *)
(* narration shown, no request received yet.                               *)
(***************************************************************************)
TurnReset ==
    /\ todo = {}
    /\ character_decisions = <<>>
    /\ decision_calls = [c \in Characters |-> 0]
    /\ decision_malformed = [c \in Characters |-> 0]
    /\ generated = NoText
    /\ gen_calls = 0
    /\ verdict = "none"
    /\ issues = {}
    /\ logs = {}
    /\ relationship_updates = ZeroDelta
    /\ story_flags_set = {}
    /\ response = NoResponse
    /\ analysis = ZeroDelta
    /\ timeouts = 0

NoReplay ==
    [start |-> TemplateRelationship, effect |-> ZeroDelta,
     naive |-> TemplateRelationship, guarded |-> TemplateRelationship,
     naive_runs |-> 0, guarded_runs |-> 0, seen |-> {}]

\* every character of the story has its Character row, the client is there
StaticIdle ==
    /\ character_rows = Characters
    /\ memory_flags = TemplateMemoryFlags
    /\ torn_down = FALSE
    /\ replay = NoReplay
    /\ ClientIdle

Init ==
    /\ stage = "IDLE"
    /\ turn = 0
    /\ conversations = <<>>
    /\ present = {UserCharacter, "alex"}
    /\ context = NoContext
    /\ relationship = TemplateRelationship
    /\ TurnReset
    /\ UpdaterIdle
    /\ StaticIdle

(***************************************************************************)
(* 1. Request reception (/chat/send).                                      *)
(***************************************************************************)
ReceiveRequest ==
    /\ stage \in {"IDLE", "RESPONDED", "HTTP_404", "HTTP_500"}
    /\ turn < MaxTurns
    /\ turn' = turn + 1
    /\ todo' = {}
    /\ character_decisions' = <<>>
    /\ decision_calls' = [c \in Characters |-> 0]
    /\ decision_malformed' = [c \in Characters |-> 0]
    /\ generated' = NoText
    /\ gen_calls' = 0
    /\ verdict' = "none"
    /\ issues' = {}
    /\ logs' = {}
    /\ relationship_updates' = ZeroDelta
    /\ story_flags_set' = {}
    /\ analysis' = ZeroDelta
    /\ timeouts' = 0
    /\ context' = NoContext
    /\ \E sessionExists \in BOOLEAN :
          IF sessionExists
          THEN /\ conversations' = Append(conversations, "user")
               /\ stage' = "CONTEXT"
               /\ response' = NoResponse
          ELSE /\ conversations' = conversations
               /\ stage' = "HTTP_404"
               /\ response' = [status |-> 404]
    /\ UNCHANGED <<present, relationship>>
    /\ UNCHANGED <<updaterVars, staticVars>>

(***************************************************************************)
(* 2. Context building (ContextBuilder.build_full_context).                *)
(***************************************************************************)
build_full_context ==
    /\ stage = "CONTEXT"
    /\ \E memories \in get_memory_flags_context(memory_flags) :
          context' = [characters |-> present, relationship |-> relationship,
                      memories |-> memories]
    /\ stage' = "SCENE_DETECT"
    /\ UNCHANGED <<turn, conversations, present, todo, character_decisions,
                   decision_calls, decision_malformed, generated, gen_calls,
                   verdict, issues, logs, relationship, relationship_updates,
                   story_flags_set, response>>
    /\ UNCHANGED <<analysis, timeouts, updaterVars, staticVars>>

(***************************************************************************)
(* 3. Scene change detection: characters may enter or leave the scene.     *)
(***************************************************************************)
DetectSceneChange ==
    /\ stage = "SCENE_DETECT"
    /\ \E entered \in SUBSET (NPCs \ present), left \in SUBSET (present \cap NPCs) :
          /\ present' = (present \cup entered) \ left
          /\ todo' = (present \cup entered) \ left
    /\ stage' = "DECISIONS"
    /\ UNCHANGED <<turn, conversations, context, character_decisions,
                   decision_calls, decision_malformed, generated, gen_calls,
                   verdict, issues, logs, relationship, relationship_updates,
                   story_flags_set, response>>
    /\ UNCHANGED <<analysis, timeouts, updaterVars, staticVars>>

(***************************************************************************)
(* 4. Character decision layer: one model call per non-user character.     *)
(***************************************************************************)
\* the playthrough the session of the request belongs to
SessionPlaythrough == "p1"

track_internal_state_Persist(row, emotion) ==
    [row EXCEPT !.character_state = [stress |-> IF emotion = "calm" THEN 0 ELSE Scale]]

\* the reaction a character decided on is kept with the decision and the
\* scene (mood, intent); its character_state row stays as it is
track_internal_state(row, emotion) == row

DecideCharacter ==
    /\ stage = "DECISIONS"
    /\ \E c \in todo :
          /\ todo' = todo \ {c}
          /\ stage' = IF LoopDone(todo \ {c}) THEN "GENERATE" ELSE "DECISIONS"
          /\ IF SkipsDecision(c)
             THEN UNCHANGED <<character_decisions, decision_calls, decision_malformed,
                              logs, rows>>
             ELSE \E r \in DecisionResponses :
                    /\ character_decisions' =
                          Append(character_decisions, Decision(c, analyze_character_decision(r)))
                    /\ decision_calls' = [decision_calls EXCEPT ![c] = @ + 1]
                    /\ decision_malformed' =
                          [decision_malformed EXCEPT ![c] = IF r.json THEN @ ELSE @ + 1]
                    /\ logs' = logs \cup {"ai_decision"}
                    /\ rows' = [q \in StoreKeys |->
                                   IF q = SessionPlaythrough /\ rows[q].exists
                                   THEN track_internal_state(rows[q],
                                            analyze_character_decision(r).emotion)
                                   ELSE rows[q]]
    /\ UNCHANGED <<turn, conversations, present, context, generated,
                   gen_calls, verdict, issues, relationship,
                   relationship_updates, story_flags_set, response>>
    /\ UNCHANGED <<analysis, timeouts, staticVars>>
    /\ UNCHANGED <<lock_holder, upd_pc, upd_effect, upd_local, upd_applied>>

(***************************************************************************)
(* 5. Story generation (large model).                                      *)
(***************************************************************************)
GenerateStory ==
    /\ stage = "GENERATE"
    /\ \E text \in TextsFor(present) : generated' = text
    /\ gen_calls' = gen_calls + 1
    /\ stage' = "VALIDATE"
    /\ UNCHANGED <<turn, conversations, present, context, todo,
                   character_decisions, decision_calls, decision_malformed,
                   verdict, issues, logs, relationship, relationship_updates,
                   story_flags_set, response>>
    /\ UNCHANGED <<analysis, timeouts, updaterVars, staticVars>>

(***************************************************************************)
(* An AI call that fails, by an error of the provider or by its request    *)
(* timing out: the error bubbles up as HTTP 500.                           *)
(***************************************************************************)
AIError ==
    /\ stage \in {"SCENE_DETECT", "DECISIONS", "GENERATE"}
    /\ \E cause \in {"timeout", "error"} :
          timeouts' = IF cause = "timeout" THEN timeouts + 1 ELSE timeouts
    /\ stage' = "HTTP_500"
    /\ response' = [status |-> 500]
    /\ logs' = logs \cup {"error"}
    /\ UNCHANGED <<turn, conversations, present, context, todo,
                   character_decisions, decision_calls, decision_malformed,
                   generated, gen_calls, verdict, issues, relationship,
                   relationship_updates, story_flags_set>>
    /\ UNCHANGED <<analysis, updaterVars, staticVars>>

(***************************************************************************)
(* 6. Content validation: issues are logged as warnings, the content is    *)
(* still returned.                                                         *)
(***************************************************************************)
ValidateResponse ==
    /\ stage = "VALIDATE"
    /\ issues' = ValidateContent(generated, character_decisions)
    /\ verdict' = IF issues' = {} THEN "PASSED" ELSE "FAILED"
    /\ logs' = IF issues' = {} THEN logs ELSE logs \cup {"warning"}
    /\ stage' = "SAVE_RESPONSE"
    /\ UNCHANGED <<turn, conversations, present, context, todo,
                   character_decisions, decision_calls, decision_malformed,
                   generated, gen_calls, relationship, relationship_updates,
                   story_flags_set, response>>
    /\ UNCHANGED <<analysis, timeouts, updaterVars, staticVars>>

(***************************************************************************)
(* 7.1 Save the AI response as a narrator Conversation entry.              *)
(***************************************************************************)
SaveResponse ==
    /\ stage = "SAVE_RESPONSE"
    /\ conversations' = Append(conversations, "narrator")
    /\ stage' = "UPDATE_RELATIONSHIPS"
    /\ UNCHANGED <<turn, present, context, todo, character_decisions,
                   decision_calls, decision_malformed, generated, gen_calls,
                   verdict, issues, logs, relationship, relationship_updates,
                   story_flags_set, response>>
    /\ UNCHANGED <<analysis, timeouts, updaterVars, staticVars>>

(***************************************************************************)
(* 7.2 Update relationships; an error here is caught and logged and does   *)
(* not block the response.                                                 *)
(***************************************************************************)
ContinueAfterError_Abort(next) == "HTTP_500"

\* a relationship or progression error is caught and logged: the flow goes on
\* to the step that follows
ContinueAfterError(next) == next

UpdateRelationships ==
    /\ stage = "UPDATE_RELATIONSHIPS"
    /\ \/ \E d \in AnalysisSamples :
            /\ analysis' = d
            /\ relationship' = update_relationship_metrics(relationship, d)
            /\ relationship_updates' = RowDiff(relationship', relationship)
            /\ logs' = logs
            /\ stage' = "CHECK_PROGRESSION"
       \/ /\ logs' = logs \cup {"error"}
          /\ stage' = ContinueAfterError("CHECK_PROGRESSION")
          /\ UNCHANGED <<analysis, relationship, relationship_updates>>
    /\ UNCHANGED <<turn, conversations, present, context, todo,
                   character_decisions, decision_calls, decision_malformed,
                   generated, gen_calls, verdict, issues, story_flags_set,
                   response>>
    /\ UNCHANGED <<timeouts, updaterVars, staticVars>>

(***************************************************************************)
(* 7.3 Check story progression; 7.4 update the session's last_active.      *)
(***************************************************************************)
CheckProgression ==
    /\ stage = "CHECK_PROGRESSION"
    /\ \/ /\ \E flags \in SUBSET {"flag"} : story_flags_set' = flags
          /\ logs' = logs
          /\ stage' = "RESPONSE_ASSEMBLY"
       \/ /\ logs' = logs \cup {"progression_error"}
          /\ stage' = ContinueAfterError("RESPONSE_ASSEMBLY")
          /\ UNCHANGED story_flags_set
    /\ UNCHANGED <<turn, conversations, present, context, todo,
                   character_decisions, decision_calls, decision_malformed,
                   generated, gen_calls, verdict, issues, relationship,
                   relationship_updates, response>>
    /\ UNCHANGED <<analysis, timeouts, updaterVars, staticVars>>

(***************************************************************************)
(* 8. Response assembly: the ChatResponse is returned to the caller.       *)
(***************************************************************************)
AssembleResponse ==
    /\ stage = "RESPONSE_ASSEMBLY"
    /\ response' = [status |-> 200, message |-> generated,
                    relationship_updates |-> relationship_updates,
                    story_flags_set |-> story_flags_set]
    /\ stage' = "RESPONDED"
    /\ UNCHANGED <<turn, conversations, present, context, todo,
                   character_decisions, decision_calls, decision_malformed,
                   generated, gen_calls, verdict, issues, logs, relationship,
                   relationship_updates, story_flags_set>>
    /\ UNCHANGED <<analysis, timeouts, updaterVars, staticVars>>

Next ==
    \/ ReceiveRequest
    \/ build_full_context
    \/ DetectSceneChange
    \/ DecideCharacter
    \/ GenerateStory
    \/ AIError
    \/ ValidateResponse
    \/ SaveResponse
    \/ UpdateRelationships
    \/ CheckProgression
    \/ AssembleResponse

Spec == Init /\ [][Next]_vars

TypeOK ==
    /\ stage \in {"IDLE", "CONTEXT", "SCENE_DETECT", "DECISIONS", "GENERATE", "VALIDATE",
                  "SAVE_RESPONSE", "UPDATE_RELATIONSHIPS", "CHECK_PROGRESSION",
                  "RESPONSE_ASSEMBLY", "RESPONDED", "HTTP_404", "HTTP_500"}
    /\ turn \in 0..MaxTurns
    /\ present \subseteq Characters
    /\ todo \subseteq Characters
    /\ generated \in Texts \cup {NoText}
    /\ verdict \in {"none", "PASSED", "FAILED"}

(***************************************************************************)
(* The relationship updater applied to one Turn's requested changes.       *)
(***************************************************************************)
UnitSamples == {0, 2, Scale - 1}

RelationshipRows ==
    [trust : UnitSamples, affection : UnitSamples,
     familiarity : UnitSamples, closeness : UnitSamples]

DeltaRequests ==
    [trust : Requests, affection : Requests, familiarity : Requests, closeness : Requests]

InitRel ==
    /\ stage = "UPDATE_RELATIONSHIPS"
    /\ turn = 1
    /\ conversations = <<"user", "narrator">>
    /\ present = {UserCharacter, "alex"}
    /\ context = NoContext
    /\ relationship \in RelationshipRows
    /\ TurnReset
    /\ UpdaterIdle
    /\ StaticIdle

ApplyRequestedChanges ==
    /\ stage = "UPDATE_RELATIONSHIPS"
    /\ \E d \in DeltaRequests :
          /\ analysis' = d
          /\ relationship' = update_relationship_metrics(relationship, d)
          /\ relationship_updates' = RowDiff(relationship', relationship)
    /\ stage' = "CHECK_PROGRESSION"
    /\ UNCHANGED <<turn, conversations, present, context, todo,
                   character_decisions, decision_calls, decision_malformed,
                   generated, gen_calls, verdict, issues, logs,
                   story_flags_set, response>>
    /\ UNCHANGED <<timeouts, updaterVars, staticVars>>

NextRel == ApplyRequestedChanges

SpecRel == InitRel /\ [][NextRel]_vars

(***************************************************************************)
(* The State Updater on its own: three State Updates handed over in turn   *)
(* order and run concurrently.                                             *)
(***************************************************************************)
InitUpdater ==
    /\ stage = "IDLE"
    /\ turn = 0
    /\ conversations = <<>>
    /\ present = {UserCharacter, "alex"}
    /\ context = NoContext
    /\ relationship = TemplateRelationship
    /\ TurnReset
    /\ UpdaterIdle
    /\ StaticIdle

NextUpdater ==
    \/ \E p \in Playthroughs : create_playthrough(p)
    \/ \E u \in Updates :
        \/ SubmitUpdate(u)
        \/ AcquireLock(u)
        \/ ReadRelationship(u)
        \/ WriteRelationship(u)
        \/ ReadCharacterState(u)
        \/ WriteCharacterState(u)
        \/ ApplyNextEffect(u)
        \/ ReleaseLock(u)

SpecUpdater == InitUpdater /\ [][NextUpdater]_vars

(***************************************************************************)
(* Context building over scenes and memory tables: one request, from the   *)
(* context to the generated text.                                          *)
(***************************************************************************)
InitContext ==
    /\ stage = "CONTEXT"
    /\ turn = 1
    /\ conversations = <<"user">>
    /\ present \in {{UserCharacter, "alex"}, Characters}
    /\ context = NoContext
    /\ relationship = TemplateRelationship
    /\ TurnReset
    /\ UpdaterIdle
    /\ character_rows \in {Characters, Characters \ {"jade"}}
    /\ memory_flags \in MemoryTables
    /\ torn_down = FALSE
    /\ replay = NoReplay
    /\ ClientIdle

NextContext ==
    \/ build_full_context
    \/ DetectSceneChange
    \/ DecideCharacter
    \/ GenerateStory
    \/ AIError

SpecContext == InitContext /\ [][NextContext]_vars

(***************************************************************************)
(* One request whose client goes away while it is served. The backend is a *)
(* process of its own and is not told.                                     *)
(***************************************************************************)
Teardown ==
    /\ stage \notin {"IDLE", "RESPONDED", "HTTP_404", "HTTP_500"}
    /\ ~torn_down
    /\ torn_down' = TRUE
    /\ UNCHANGED <<stage, turn, conversations, present, context, todo,
                   character_decisions, decision_calls, decision_malformed,
                   generated, gen_calls, verdict, issues, logs, relationship,
                   relationship_updates, story_flags_set, response, analysis,
                   timeouts, character_rows, memory_flags, replay>>
    /\ UNCHANGED <<updaterVars, clientVars>>

InitTeardown ==
    /\ stage = "CONTEXT"
    /\ turn = 1
    /\ conversations = <<"user">>
    /\ present = {UserCharacter, "alex"}
    /\ context = NoContext
    /\ relationship = TemplateRelationship
    /\ TurnReset
    /\ UpdaterIdle
    /\ StaticIdle

NextTeardown ==
    \/ Teardown
    \/ build_full_context
    \/ DetectSceneChange
    \/ DecideCharacter
    \/ GenerateStory
    \/ AIError
    \/ ValidateResponse
    \/ SaveResponse
    \/ UpdateRelationships
    \/ CheckProgression
    \/ AssembleResponse

SpecTeardown == InitTeardown /\ [][NextTeardown]_vars

(***************************************************************************)
(* A request served while the State Update of the Turn before it is still  *)
(* running.                                                                *)
(***************************************************************************)
PreviousUpdate == <<SessionPlaythrough, 1>>

InitPlay ==
    /\ stage = "CONTEXT"
    /\ turn = 2
    /\ conversations = <<"user", "narrator", "user">>
    /\ present = {UserCharacter, "alex"}
    /\ context = NoContext
    /\ relationship = TemplateRelationship
    /\ TurnReset
    /\ StaticIdle
    /\ rows = [q \in StoreKeys |-> IF q = "p2" THEN NoRows ELSE TemplateRows]
    /\ lock_holder = [p \in Playthroughs |-> NoUpdate]
    /\ upd_pc = [u \in Updates |-> IF u = PreviousUpdate THEN "queued" ELSE "absent"]
    /\ upd_effect \in { [u \in Updates |-> IF u = PreviousUpdate THEN e ELSE NoEffect] :
                           e \in Effects }
    /\ upd_local = [u \in Updates |-> TemplateRows]
    /\ upd_applied = [u \in Updates |-> <<>>]

NextPlay ==
    \/ build_full_context
    \/ DetectSceneChange
    \/ DecideCharacter
    \/ GenerateStory
    \/ AIError
    \/ ValidateResponse
    \/ AcquireLock(PreviousUpdate)
    \/ ReadRelationship(PreviousUpdate)
    \/ WriteRelationship(PreviousUpdate)
    \/ ReadCharacterState(PreviousUpdate)
    \/ WriteCharacterState(PreviousUpdate)
    \/ ApplyNextEffect(PreviousUpdate)
    \/ ReleaseLock(PreviousUpdate)

SpecPlay == InitPlay /\ [][NextPlay]_vars

(***************************************************************************)
(* The effects of one Turn applied to the State Updater twice: as they     *)
(* come, and behind a guard that remembers the Turns it has applied.       *)
(***************************************************************************)
ReplayTurn == 1

ReplaySamples == {0 - MaxReq, 0 - 1, 2, MaxReq}

ReplayEffects ==
    [trust : ReplaySamples, affection : ReplaySamples,
     familiarity : ReplaySamples, closeness : ReplaySamples]

AlreadyApplied_Never(seen, id) == FALSE

\* the guard: the effects of a Turn whose id was seen are not applied again
AlreadyApplied(seen, id) == id \in seen

InitReplay ==
    /\ stage = "IDLE"
    /\ turn = 0
    /\ conversations = <<>>
    /\ present = {UserCharacter, "alex"}
    /\ context = NoContext
    /\ relationship = TemplateRelationship
    /\ TurnReset
    /\ UpdaterIdle
    /\ character_rows = Characters
    /\ memory_flags = TemplateMemoryFlags
    /\ torn_down = FALSE
    /\ ClientIdle
    /\ replay \in { [start |-> r, effect |-> d, naive |-> r, guarded |-> r,
                     naive_runs |-> 0, guarded_runs |-> 0, seen |-> {}] :
                       r \in RelationshipRows, d \in ReplayEffects }

\* the effects are applied as they come
ApplyNaive ==
    /\ replay.naive_runs < 2
    /\ replay' = [replay EXCEPT
                     !.naive = update_relationship_metrics(@, replay.effect),
                     !.naive_runs = @ + 1]
    /\ UNCHANGED <<stage, turn, conversations, present, context, todo,
                   character_decisions, decision_calls, decision_malformed,
                   generated, gen_calls, verdict, issues, logs, relationship,
                   relationship_updates, story_flags_set, response, analysis,
                   timeouts, character_rows, memory_flags, torn_down>>
    /\ UNCHANGED <<updaterVars, clientVars>>

\* the effects are applied behind the Turn-id guard
ApplyGuarded ==
    /\ replay.guarded_runs < 2
    /\ replay' = [replay EXCEPT
                     !.guarded = IF AlreadyApplied(replay.seen, ReplayTurn)
                                 THEN @
                                 ELSE update_relationship_metrics(@, replay.effect),
                     !.seen = @ \cup {ReplayTurn},
                     !.guarded_runs = @ + 1]
    /\ UNCHANGED <<stage, turn, conversations, present, context, todo,
                   character_decisions, decision_calls, decision_malformed,
                   generated, gen_calls, verdict, issues, logs, relationship,
                   relationship_updates, story_flags_set, response, analysis,
                   timeouts, character_rows, memory_flags, torn_down>>
    /\ UNCHANGED <<updaterVars, clientVars>>

NextReplay == ApplyNaive \/ ApplyGuarded

SpecReplay == InitReplay /\ [][NextReplay]_vars

(***************************************************************************)
(* The client. The backend stays as it is while the client is looked at.   *)
(***************************************************************************)
serverVars ==
    <<stage, turn, conversations, present, context, todo, character_decisions,
      decision_calls, decision_malformed, generated, gen_calls, verdict,
      issues, logs, relationship, relationship_updates, story_flags_set,
      response, analysis, timeouts, character_rows, memory_flags, torn_down,
      replay, updaterVars>>

ServerIdle ==
    /\ stage = "IDLE"
    /\ turn = 0
    /\ conversations = <<>>
    /\ present = {UserCharacter, "alex"}
    /\ context = NoContext
    /\ relationship = TemplateRelationship
    /\ TurnReset
    /\ UpdaterIdle
    /\ character_rows = Characters
    /\ memory_flags = TemplateMemoryFlags
    /\ torn_down = FALSE
    /\ replay = NoReplay

settingsVars == <<SettingsComponent, localStorage, API_CONFIG>>

adminVars == <<dialog, admin_requests, status>>

chatVars == <<ChatComponent, chat_messages, controls, user_input, chat_requests>>

appVars == <<AppState, loads, session_count>>

(***************************************************************************)
(* api.js: calls of apiRequest.                                            *)
(***************************************************************************)
MaxCalls == 2

CallApi ==
    /\ Len(api_calls) < MaxCalls
    /\ \E f \in FetchOutcomes :
          api_calls' = Append(api_calls, [fetch |-> f, result |-> apiRequest(f)])
    /\ UNCHANGED <<serverVars, settingsVars, adminVars, chatVars, appVars,
                   TesterComponent, screen>>

InitApi == ServerIdle /\ ClientIdle

NextApi == CallApi

SpecApi == InitApi /\ [][NextApi]_vars

(***************************************************************************)
(* components/settings.js: the settings and their copy in localStorage.    *)
(***************************************************************************)
CurrentSettings == SettingsComponent.settings

\* DOMContentLoaded: SettingsComponent.init() loads the saved settings and
\* hands the URL to the API client; the first screen is shown
SettingsInit ==
    /\ screen = "loading"
    /\ SettingsComponent' =
          [settings |-> loadSettings(CurrentSettings, localStorage)]
    /\ API_CONFIG' =
          [API_CONFIG EXCEPT !.baseUrl = loadSettings(CurrentSettings, localStorage).apiUrl]
    /\ screen' = "stories"
    /\ UNCHANGED <<localStorage, api_calls, serverVars, adminVars, chatVars,
                   appVars, TesterComponent>>

updateSetting(key, value) ==
    /\ screen # "loading"
    /\ SettingsComponent' = [settings |-> [CurrentSettings EXCEPT ![key] = value]]
    /\ localStorage' = saveSettings([CurrentSettings EXCEPT ![key] = value])
    /\ API_CONFIG' = IF key = "apiUrl"
                     THEN [API_CONFIG EXCEPT !.baseUrl = value]
                     ELSE API_CONFIG
    /\ UNCHANGED <<screen, api_calls, serverVars, adminVars, chatVars, appVars,
                   TesterComponent>>

resetToDefaults ==
    /\ screen # "loading"
    /\ SettingsComponent' = [settings |-> DefaultSettings]
    /\ localStorage' = saveSettings(DefaultSettings)
    /\ API_CONFIG' = [API_CONFIG EXCEPT !.baseUrl = DefaultSettings.apiUrl]
    /\ UNCHANGED <<screen, api_calls, serverVars, adminVars, chatVars, appVars,
                   TesterComponent>>

\* the window is loaded anew: the scripts run again, localStorage stays
Reload ==
    /\ screen # "loading"
    /\ screen' = "loading"
    /\ SettingsComponent' = [settings |-> DefaultSettings]
    /\ API_CONFIG' = [baseUrl |-> DefaultUrl, timeout |-> 60000]
    /\ UNCHANGED <<localStorage, api_calls, serverVars, adminVars, chatVars,
                   appVars, TesterComponent>>

InitSettings ==
    /\ ServerIdle
    /\ ApiIdle
    /\ AdminIdle
    /\ ChatIdle
    /\ AppIdle
    /\ TesterIdle
    /\ screen = "loading"
    /\ SettingsComponent = [settings |-> DefaultSettings]
    /\ localStorage \in StoredItems
    /\ API_CONFIG = [baseUrl |-> DefaultUrl, timeout |-> 60000]

NextSettings ==
    \/ SettingsInit
    \/ \E key \in SettingKeys : \E value \in SettingValues(key) : updateSetting(key, value)
    \/ resetToDefaults
    \/ Reload

SpecSettings == InitSettings /\ [][NextSettings]_vars

(***************************************************************************)
(* renderer.js: screens, and loadPlaythrough with the await it is at.      *)
(***************************************************************************)
MaxLoads == 2
MaxSessions == 2

RemoveAt(seq, i) == SubSeq(seq, 1, i - 1) \o SubSeq(seq, i + 1, Len(seq))

ReplaceAt(seq, i, x) == [seq EXCEPT ![i] = x]

selectStory ==
    /\ screen = "stories"
    /\ screen' = "playthroughs"
    /\ UNCHANGED <<serverVars, api_calls, settingsVars, adminVars, chatVars,
                   appVars, TesterComponent>>

BackToStories ==
    /\ screen = "playthroughs"
    /\ screen' = "stories"
    /\ UNCHANGED <<serverVars, api_calls, settingsVars, adminVars, chatVars,
                   appVars, TesterComponent>>

BackToPlaythroughs ==
    /\ screen = "chat"
    /\ screen' = "playthroughs"
    /\ UNCHANGED <<serverVars, api_calls, settingsVars, adminVars, chatVars,
                   appVars, TesterComponent>>

\* a call of loadPlaythrough: a playthrough-item is clicked, getPlaythrough is sent
StartLoad(p) ==
    /\ screen = "playthroughs"
    /\ Len(loads) < MaxLoads
    /\ loads' = Append(loads, [playthroughId |-> p, pc |-> "getPlaythrough",
                               session |-> NoSession, created |-> FALSE])
    /\ UNCHANGED <<serverVars, api_calls, settingsVars, adminVars, chatVars,
                   AppState, session_count, TesterComponent, screen>>

\* await getPlaythrough(playthroughId) ends
GotPlaythrough(l) ==
    /\ loads[l].pc = "getPlaythrough"
    /\ \E outcome \in ApiOutcomes :
          IF outcome = "return"
          THEN /\ AppState' = [AppState EXCEPT !.currentPlaythrough = loads[l].playthroughId]
               /\ loads' = [loads EXCEPT ![l].pc = "getLatestSession"]
          ELSE /\ loads' = RemoveAt(loads, l)
               /\ UNCHANGED AppState
    /\ UNCHANGED <<serverVars, api_calls, settingsVars, adminVars, chatVars,
                   session_count, TesterComponent, screen>>

\* what the latest-session request may end with: an error when the
\* playthrough has no session, its latest session or an error when it has
LatestSessionOutcomes(p) ==
    IF session_count[p] = 0 THEN {"throw"} ELSE ApiOutcomes

\* await getLatestSession(playthroughId) ends: any error leads to createSession
GotLatestSession(l) ==
    /\ loads[l].pc = "getLatestSession"
    /\ \E outcome \in LatestSessionOutcomes(loads[l].playthroughId) :
          IF outcome = "return"
          THEN /\ AppState' = [AppState EXCEPT !.currentSession =
                                  LatestSession(session_count, loads[l].playthroughId)]
               /\ loads' = [loads EXCEPT
                               ![l].pc = "getChatHistory",
                               ![l].session =
                                  LatestSession(session_count, loads[l].playthroughId)]
          ELSE /\ loads' = [loads EXCEPT ![l].pc = "createSession"]
               /\ UNCHANGED AppState
    /\ UNCHANGED <<serverVars, api_calls, settingsVars, adminVars, chatVars,
                   session_count, TesterComponent, screen>>

\* await createSession(playthroughId) ends
CreatedSession(l) ==
    /\ loads[l].pc = "createSession"
    /\ \E outcome \in ApiOutcomes :
          IF outcome = "return"
          THEN /\ session_count[loads[l].playthroughId] < MaxSessions
               /\ session_count' =
                     [session_count EXCEPT ![loads[l].playthroughId] = @ + 1]
               /\ AppState' = [AppState EXCEPT !.currentSession =
                                  LatestSession(session_count', loads[l].playthroughId)]
               /\ loads' = [loads EXCEPT
                               ![l].pc = "getChatHistory",
                               ![l].created = TRUE,
                               ![l].session =
                                  LatestSession(session_count', loads[l].playthroughId)]
          ELSE /\ loads' = RemoveAt(loads, l)
               /\ UNCHANGED <<AppState, session_count>>
    /\ UNCHANGED <<serverVars, api_calls, settingsVars, adminVars, chatVars,
                   TesterComponent, screen>>

\* the history of a session as the chat displays it
HistoryMessages(session) ==
    << ChatMessage("user", "user", "", session),
       ChatMessage("narrator", "Narrator", "", session) >>

\* await getChatHistory(session.id) ends; ChatComponent.init runs up to its
\* await of getStory, or to its end when there is a history
GotChatHistory(l) ==
    /\ loads[l].pc = "getChatHistory"
    /\ \E outcome \in ApiOutcomes :
          IF outcome = "return"
          THEN /\ ChatComponent' =
                     [ChatComponent EXCEPT
                         !.currentPlaythrough = loads[l].playthroughId,
                         !.currentSession = loads[l].session]
               /\ \E hasHistory \in (IF loads[l].created THEN {FALSE} ELSE BOOLEAN) :
                     IF hasHistory
                     THEN /\ chat_messages' = HistoryMessages(loads[l].session)
                          /\ screen' = "chat"
                          /\ loads' = RemoveAt(loads, l)
                     ELSE /\ chat_messages' = <<>>
                          /\ loads' = [loads EXCEPT ![l].pc = "getStory"]
                          /\ UNCHANGED screen
          ELSE /\ loads' = RemoveAt(loads, l)
               /\ UNCHANGED <<ChatComponent, chat_messages, screen>>
    /\ UNCHANGED <<serverVars, api_calls, settingsVars, adminVars, controls,
                   user_input, chat_requests, AppState, session_count,
                   TesterComponent>>

\* await getStory(playthrough.story_id) in ChatComponent.init ends
GotStory(l) ==
    /\ loads[l].pc = "getStory"
    /\ \E outcome \in ApiOutcomes :
          IF outcome = "return"
          THEN /\ chat_messages' =
                     Append(chat_messages,
                            ChatMessage("narrator", "Narrator", "", loads[l].session))
               /\ screen' = "chat"
               /\ loads' = RemoveAt(loads, l)
          ELSE /\ loads' = RemoveAt(loads, l)
               /\ UNCHANGED <<chat_messages, screen>>
    /\ UNCHANGED <<serverVars, api_calls, settingsVars, adminVars, ChatComponent,
                   controls, user_input, chat_requests, AppState, session_count,
                   TesterComponent>>

\* a load goes on from the await it is at
LoadStep ==
    \E l \in DOMAIN loads :
       \/ GotPlaythrough(l)
       \/ GotLatestSession(l)
       \/ CreatedSession(l)
       \/ GotChatHistory(l)
       \/ GotStory(l)

loadPlaythrough ==
    \/ \E p \in Playthroughs : StartLoad(p)
    \/ LoadStep

(***************************************************************************)
(* The Tester and the Settings screen: requests to the admin endpoints.    *)
(***************************************************************************)
MaxPending == 2

DatabaseViews == {"characters", "relationships"}

HasPlaythrough_Always(app) == TRUE

\* if (AppState.currentPlaythrough)
HasPlaythrough(app) == app.currentPlaythrough # null

\* showDatabaseView: what the view container shows for the data the Tester holds
showDatabaseView(tc) ==
    IF tc.playthroughData = null
    THEN [kind |-> "not_loaded", playthrough |-> null]
    ELSE [kind |-> "data", playthrough |-> tc.playthroughData]

AdminRequest(kind, p, confirmed, then) ==
    [kind |-> kind, playthrough |-> p, confirmed |-> confirmed, then |-> then]

\* btn-tester: the Tester is shown and initialised, its data requested
TesterClick ==
    /\ screen # "loading"
    /\ IF HasPlaythrough(AppState)
       THEN /\ Len(admin_requests) < MaxPending
            /\ screen' = "tester"
            /\ TesterComponent' =
                  [TesterComponent EXCEPT
                      !.currentPlaythrough = AppState.currentPlaythrough,
                      !.currentSession = AppState.currentSession,
                      !.currentView = "characters"]
            /\ admin_requests' =
                  Append(admin_requests,
                         AdminRequest("data", AppState.currentPlaythrough, FALSE, "init"))
       ELSE UNCHANGED <<screen, TesterComponent, admin_requests>>
    /\ UNCHANGED <<serverVars, api_calls, settingsVars, dialog, status, chatVars,
                   appVars>>

CloseTester ==
    /\ screen = "tester"
    /\ screen' = IF AppState.currentSession # NoSession THEN "chat" ELSE "playthroughs"
    /\ UNCHANGED <<serverVars, api_calls, settingsVars, adminVars, chatVars,
                   appVars, TesterComponent>>

OpenSettings ==
    /\ screen \notin {"loading", "settings"}
    /\ screen' = "settings"
    /\ UNCHANGED <<serverVars, api_calls, settingsVars, adminVars, chatVars,
                   appVars, TesterComponent>>

CloseSettings ==
    /\ screen = "settings"
    /\ screen' = IF AppState.currentSession # NoSession THEN "chat" ELSE "stories"
    /\ UNCHANGED <<serverVars, api_calls, settingsVars, adminVars, chatVars,
                   appVars, TesterComponent>>

\* a navigation button of the Tester: showView of a database view
showView(viewType) ==
    /\ screen = "tester"
    /\ TesterComponent' =
          [TesterComponent EXCEPT
              !.currentView = viewType,
              !.container = showDatabaseView(TesterComponent)]
    /\ UNCHANGED <<serverVars, api_calls, settingsVars, adminVars, chatVars,
                   appVars, screen>>

Confirmed_Always(answer) == TRUE

\* if (!confirm(...)) return
Confirmed(answer) == answer

resetCurrentPlaythrough ==
    /\ screen = "tester"
    /\ Len(admin_requests) < MaxPending
    /\ \E answer \in BOOLEAN :
          /\ dialog' = [action |-> "reset", answer |-> answer]
          /\ IF Confirmed(answer)
             THEN /\ status' = [status EXCEPT !.reset = "resetting"]
                  /\ admin_requests' =
                        Append(admin_requests,
                               AdminRequest("reset", TesterComponent.currentPlaythrough,
                                            answer, "none"))
             ELSE UNCHANGED <<status, admin_requests>>
    /\ UNCHANGED <<serverVars, api_calls, settingsVars, chatVars, appVars,
                   TesterComponent, screen>>

clearAllTestData ==
    /\ screen = "settings"
    /\ status.btn_clear = "enabled"
    /\ Len(admin_requests) < MaxPending
    /\ \E answer \in BOOLEAN :
          /\ dialog' = [action |-> "clear", answer |-> answer]
          /\ IF Confirmed(answer)
             THEN /\ status' = [status EXCEPT !.clear = "clearing",
                                              !.btn_clear = "disabled"]
                  /\ admin_requests' =
                        Append(admin_requests, AdminRequest("clear", null, answer, "none"))
             ELSE UNCHANGED <<status, admin_requests>>
    /\ UNCHANGED <<serverVars, api_calls, settingsVars, chatVars, appVars,
                   TesterComponent, screen>>

\* loadPlaythroughData ends for the request, then the view is shown
AfterPlaythroughData(tc, req, r) ==
    LET loaded == IF r.outcome = "return"
                  THEN [tc EXCEPT !.playthroughData = req.playthrough]
                  ELSE [tc EXCEPT !.container =
                                     [kind |-> "error", playthrough |-> req.playthrough]]
        view == IF req.then = "init" THEN "characters" ELSE tc.currentView
    IN [loaded EXCEPT !.currentView = view, !.container = showDatabaseView(loaded)]

\* a request to an admin endpoint ends and the handler that awaits it goes on
SettleAdmin(i) ==
    /\ i \in DOMAIN admin_requests
    /\ \E r \in ApiResults :
          LET req == admin_requests[i] IN
          CASE req.kind = "data" ->
                 /\ TesterComponent' = AfterPlaythroughData(TesterComponent, req, r)
                 /\ status' = IF req.then = "reset"
                              THEN [status EXCEPT !.timer = TRUE]
                              ELSE status
                 /\ admin_requests' = RemoveAt(admin_requests, i)
            [] req.kind = "reset" ->
                 /\ IF r.outcome = "return"
                    THEN /\ status' = [status EXCEPT !.reset = "success"]
                         /\ admin_requests' =
                               ReplaceAt(admin_requests, i,
                                         AdminRequest("data",
                                                      TesterComponent.currentPlaythrough,
                                                      FALSE, "reset"))
                    ELSE /\ status' = [status EXCEPT !.reset = "error"]
                         /\ admin_requests' = RemoveAt(admin_requests, i)
                 /\ UNCHANGED TesterComponent
            [] req.kind = "clear" ->
                 /\ IF r.outcome = "return"
                    THEN /\ status' = [status EXCEPT !.clear = "success"]
                         /\ admin_requests' =
                               ReplaceAt(admin_requests, i,
                                         AdminRequest("list", null, FALSE, "clear"))
                    ELSE /\ status' = [status EXCEPT !.clear = "error",
                                                     !.btn_clear = "enabled"]
                         /\ admin_requests' = RemoveAt(admin_requests, i)
                 /\ UNCHANGED TesterComponent
            [] req.kind = "list" ->
                 /\ status' = [status EXCEPT !.btn_clear = "enabled"]
                 /\ admin_requests' = RemoveAt(admin_requests, i)
                 /\ UNCHANGED TesterComponent
    /\ UNCHANGED <<serverVars, api_calls, settingsVars, dialog, chatVars, appVars,
                   screen>>

\* setTimeout(..., 5000) of a reset that went through
StatusTimer ==
    /\ status.timer
    /\ status' = [status EXCEPT !.reset = "", !.timer = FALSE]
    /\ UNCHANGED <<serverVars, api_calls, settingsVars, dialog, admin_requests,
                   chatVars, appVars, TesterComponent, screen>>

\* the client after loadPlaythrough(p) went through for a session without history
Loaded(p, session) ==
    /\ AppState = [currentPlaythrough |-> p, currentSession |-> session]
    /\ loads = <<>>
    /\ ChatComponent = [currentPlaythrough |-> p, currentSession |-> session,
                        isLoading |-> FALSE]
    /\ chat_messages = << ChatMessage("narrator", "Narrator", "", session) >>
    /\ controls = ControlsFor(FALSE)
    /\ user_input = <<>>
    /\ chat_requests = <<>>
    /\ screen = "chat"

InitLoad ==
    /\ ServerIdle
    /\ ApiIdle
    /\ SettingsIdle
    /\ AdminIdle
    /\ ChatIdle
    /\ TesterIdle
    /\ AppState = [currentPlaythrough |-> null, currentSession |-> NoSession]
    /\ loads = <<>>
    /\ session_count \in [Playthroughs -> 0..1]
    /\ screen = "stories"

NextLoad ==
    \/ selectStory
    \/ BackToStories
    \/ BackToPlaythroughs
    \/ loadPlaythrough

SpecLoad == InitLoad /\ [][NextLoad]_vars

InitAdmin ==
    /\ ServerIdle
    /\ ApiIdle
    /\ SettingsIdle
    /\ AdminIdle
    /\ TesterIdle
    /\ \/ ChatIdle /\ AppIdle /\ screen = "stories"
       \/ \E p \in Playthroughs :
             /\ Loaded(p, Session(p, 1))
             /\ session_count = [q \in Playthroughs |-> IF q = p THEN 1 ELSE 0]

NextAdmin ==
    \/ TesterClick
    \/ CloseTester
    \/ OpenSettings
    \/ CloseSettings
    \/ \E viewType \in DatabaseViews : showView(viewType)
    \/ resetCurrentPlaythrough
    \/ clearAllTestData
    \/ \E i \in DOMAIN admin_requests : SettleAdmin(i)
    \/ StatusTimer

SpecAdmin == InitAdmin /\ [][NextAdmin]_vars

(***************************************************************************)
(* ChatComponent: sending, generating more, and the responses.             *)
(***************************************************************************)
MaxMessages == 3

\* API_CONFIG.timeout in ticks of TickSeconds
TickSeconds == 15

TimeoutTicks == 60000 \div (1000 * TickSeconds)

MaxAge == TimeoutTicks + 1

\* how the chat endpoints may answer: a narrative, or an error with a detail
ChatFetchOutcomes ==
    { f \in FetchOutcomes :
        \/ f.ok /\ f.body.json /\ f.body.data = "data1"
        \/ f.status_code = 404 /\ f.body.json /\ f.body.detail = "Session not found" }

ChatResults == { apiRequest(f) : f \in ChatFetchOutcomes }

ChatRequest(kind, session) == [kind |-> kind, session |-> session, age |-> 0]

\* the user types into #user-input
TypeInput(text) ==
    /\ screen = "chat"
    /\ controls.user_input = "enabled"
    /\ user_input' = text
    /\ UNCHANGED <<serverVars, api_calls, settingsVars, adminVars, ChatComponent,
                   chat_messages, controls, chat_requests, appVars,
                   TesterComponent, screen>>

IsBusy_Never(chat) == chat.currentSession = NoSession

\* if (this.isLoading || !this.currentSession)
IsBusy(chat) == chat.isLoading \/ chat.currentSession = NoSession

\* a call of ChatComponent.sendMessage: btn-send is clicked or Enter is pressed
sendMessage ==
    /\ screen = "chat"
    /\ IF IsBusy(ChatComponent) \/ trim(user_input) = <<>>
       THEN UNCHANGED chatVars
       ELSE /\ Len(chat_messages) < MaxMessages
            /\ user_input' = <<>>
            /\ chat_messages' =
                  Append(chat_messages,
                         ChatMessage("user", "You", "", ChatComponent.currentSession))
            /\ ChatComponent' = [ChatComponent EXCEPT !.isLoading = TRUE]
            /\ controls' = ControlsFor(TRUE)
            /\ chat_requests' =
                  Append(chat_requests, ChatRequest("send", ChatComponent.currentSession))
    /\ UNCHANGED <<serverVars, api_calls, settingsVars, adminVars, appVars,
                   TesterComponent, screen>>

\* a call of ChatComponent.generateMore: btn-generate-more is clicked
generateMore ==
    /\ screen = "chat"
    /\ IF IsBusy(ChatComponent)
       THEN UNCHANGED chatVars
       ELSE /\ Len(chat_messages) < MaxMessages
            /\ ChatComponent' = [ChatComponent EXCEPT !.isLoading = TRUE]
            /\ controls' = ControlsFor(TRUE)
            /\ chat_requests' =
                  Append(chat_requests,
                         ChatRequest("generate", ChatComponent.currentSession))
            /\ UNCHANGED <<chat_messages, user_input>>
    /\ UNCHANGED <<serverVars, api_calls, settingsVars, adminVars, appVars,
                   TesterComponent, screen>>

FinallyLoading_TryOnly(r) == r.outcome = "throw"

\* finally { this.setLoading(false) }: isLoading after the request settled
FinallyLoading(r) == FALSE

SettledMessage_ErrorAsNarrative(req, r) ==
    ChatMessage("narrator", "Narrator",
                IF r.outcome = "return" THEN r.data ELSE r.message, req.session)

\* the message a settled chat request adds: the narrative, or a System
\* message with the error
SettledMessage(req, r) ==
    IF r.outcome = "return"
    THEN ChatMessage("narrator", "Narrator", r.data, req.session)
    ELSE ChatMessage("narrator", "System", r.message, req.session)

\* the request of a sendMessage or generateMore settles, with a response or
\* with an error, and the handler that awaits it goes on to its end
SettleChatWith(i, r) ==
    /\ i \in DOMAIN chat_requests
    /\ chat_messages' = Append(chat_messages, SettledMessage(chat_requests[i], r))
    /\ ChatComponent' = [ChatComponent EXCEPT !.isLoading = FinallyLoading(r)]
    /\ controls' = ControlsFor(FinallyLoading(r))
    /\ chat_requests' = RemoveAt(chat_requests, i)
    /\ UNCHANGED <<serverVars, api_calls, settingsVars, adminVars, user_input,
                   appVars, TesterComponent, screen>>

SettleChat(i) == \E r \in ChatResults : SettleChatWith(i, r)

\* TickSeconds pass while a chat request waits for its answer
Tick ==
    /\ chat_requests # <<>>
    /\ \A i \in DOMAIN chat_requests : chat_requests[i].age < MaxAge
    /\ chat_requests' =
          [i \in DOMAIN chat_requests |->
              [chat_requests[i] EXCEPT !.age = @ + 1]]
    /\ UNCHANGED <<serverVars, api_calls, settingsVars, adminVars, ChatComponent,
                   chat_messages, controls, user_input, appVars, TesterComponent,
                   screen>>

\* a playthrough is loaded; the other playthrough has a session too
InitChat ==
    /\ ServerIdle
    /\ ApiIdle
    /\ SettingsIdle
    /\ AdminIdle
    /\ TesterIdle
    /\ Loaded("p1", Session("p1", 1))
    /\ session_count = [q \in Playthroughs |-> 1]

\* a playthrough-item is clicked while no other load is under way
LoadAnother ==
    /\ loads = <<>>
    /\ \E p \in Playthroughs : StartLoad(p)

NextChat ==
    \/ \E text \in InputSamples : TypeInput(text)
    \/ sendMessage
    \/ generateMore
    \/ \E i \in DOMAIN chat_requests : SettleChat(i)
    \/ BackToPlaythroughs
    \/ LoadAnother
    \/ LoadStep

SpecChat == InitChat /\ [][NextChat]_vars

NextTimeout ==
    \/ \E text \in InputSamples : TypeInput(text)
    \/ sendMessage
    \/ generateMore
    \/ \E i \in DOMAIN chat_requests : SettleChat(i)
    \/ Tick

SpecTimeout == InitChat /\ [][NextTimeout]_vars

\* the client at the stories screen; playthroughs are loaded one at a time,
\* the Settings screen is opened and closed, text is typed and sent
InitSend ==
    /\ ServerIdle
    /\ ApiIdle
    /\ SettingsIdle
    /\ AdminIdle
    /\ ChatIdle
    /\ TesterIdle
    /\ AppState = [currentPlaythrough |-> null, currentSession |-> NoSession]
    /\ loads = <<>>
    /\ session_count = [q \in Playthroughs |-> 1]
    /\ screen = "stories"

NextSend ==
    \/ selectStory
    \/ LoadAnother
    \/ LoadStep
    \/ OpenSettings
    \/ CloseSettings
    \/ \E text \in InputSamples : TypeInput(text)
    \/ sendMessage
    \/ \E i \in DOMAIN chat_requests : SettleChat(i)

SpecSend == InitSend /\ [][NextSend]_vars

\* a playthrough is loaded; the Tester is opened and closed, its views are
\* shown, and other playthroughs are loaded in between
InitTester ==
    /\ ServerIdle
    /\ ApiIdle
    /\ SettingsIdle
    /\ AdminIdle
    /\ TesterIdle
    /\ Loaded("p1", Session("p1", 1))
    /\ session_count = [q \in Playthroughs |-> 1]

NextTester ==
    \/ TesterClick
    \/ CloseTester
    \/ \E viewType \in DatabaseViews : showView(viewType)
    \/ \E i \in DOMAIN admin_requests : SettleAdmin(i)
    \/ BackToPlaythroughs
    \/ LoadAnother
    \/ LoadStep

SpecTester == InitTester /\ [][NextTester]_vars

(***************************************************************************)
(* Properties of the turn pipeline.                                        *)
(***************************************************************************)
RetryCeiling == 2

\* the generic constraint-safe narration of a rejected Turn
FallbackNarration == [kind |-> "fallback"]

Released == response.status = 200

KnownBad(found) == \E i \in found : Severity(i) \in {"critical", "high"}

\* validation has been left: the response is being saved, used or returned
LeftValidation ==
    stage \in {"SAVE_RESPONSE", "UPDATE_RELATIONSHIPS", "CHECK_PROGRESSION",
               "RESPONSE_ASSEMBLY", "RESPONDED"}

GenerationStarted == stage = "VALIDATE" \/ LeftValidation

\* the verdict of the Turn state machine GENERATED -> {VALID, NEEDS_REGEN, REJECTED}
TurnVerdict ==
    IF generated = FallbackNarration THEN "REJECTED"
    ELSE IF KnownBad(ValidateContent(generated, character_decisions)) THEN "NEEDS_REGEN"
    ELSE "VALID"

\* C1: the narrative released to the caller is never a text in which the
\* validator found a critical or high violation; such a Turn is REJECTED and
\* the fallback narration is released instead.
C1_NeverReleaseKnownBad ==
    Released =>
        \/ response.message = FallbackNarration
        \/ ~KnownBad(ValidateContent(response.message, character_decisions))

\* C2: a Turn runs generation at most 1 + RetryCeiling times and leaves
\* validation with a final verdict, VALID or REJECTED.
C2_RegenerationTerminates ==
    LeftValidation =>
        /\ gen_calls <= 1 + RetryCeiling
        /\ TurnVerdict \in {"VALID", "REJECTED"}

\* C3: when a character's decision is an action of its would-never-do set,
\* the Turn is regenerated (or rejected) and the delivered narrative does not
\* show the character doing that action.
C3_WouldNeverDoRegenerated ==
    Released =>
        \A c \in NPCs :
            (HasDecision(c) /\ DecisionFor(c).action = "forbidden") =>
                /\ gen_calls > 1 \/ response.message = FallbackNarration
                /\ \/ response.message = FallbackNarration
                   \/ response.message.shows[c] # "forbidden"

\* C4: no narrative delivered to the caller speaks or acts for the
\* user-controlled character.
C4_NoUserControlReleased ==
    Released =>
        \/ response.message = FallbackNarration
        \/ ~response.message.userControl

\* the stage of the Turn state machine a step of send_message belongs to
Phase(s) ==
    CASE s \in {"IDLE", "RESPONDED", "HTTP_404", "HTTP_500"} -> "NONE"
      [] s \in {"CONTEXT", "SCENE_DETECT"} -> "CONTEXT"
      [] s = "DECISIONS" -> "DECISIONS"
      [] s = "GENERATE" -> "GENERATE"
      [] s = "VALIDATE" -> "VALIDATE"
      [] s \in {"SAVE_RESPONSE", "RESPONSE_ASSEMBLY"} -> "RELEASE"
      [] s \in {"UPDATE_RELATIONSHIPS", "CHECK_PROGRESSION"} -> "STATE_UPDATE"

StageOrder ==
    { <<"NONE", "CONTEXT">>, <<"CONTEXT", "DECISIONS">>,
      <<"DECISIONS", "GENERATE">>, <<"GENERATE", "VALIDATE">>,
      <<"VALIDATE", "DECISIONS">>, <<"VALIDATE", "GENERATE">>,
      <<"VALIDATE", "RELEASE">>, <<"RELEASE", "STATE_UPDATE">>,
      <<"RELEASE", "NONE">>, <<"STATE_UPDATE", "NONE">> }

\* a Turn that fails leaves the pipeline from any stage
Aborts(s) == s \in {"HTTP_404", "HTTP_500"}

\* C5: the stages of a Turn occur only in the order INTAKE, CONTEXT,
\* DECISIONS, GENERATE, VALIDATE, RELEASE, STATE_UPDATE, the only backward
\* step being the regeneration loop; STATE_UPDATE never starts before the
\* response was returned to the caller.
C5_StageOrder ==
    [][ /\ (Phase(stage') # Phase(stage) /\ ~Aborts(stage'))
            => <<Phase(stage), Phase(stage')>> \in StageOrder
        /\ (Phase(stage') = "STATE_UPDATE") => Released ]_vars

\* C6: once generation has started, every non-player character of the scene
\* has exactly one decision and the user's character has none.
C6_AllDecisionsBeforeGeneration ==
    /\ DecisionsOf(UserCharacter) = {}
    /\ (stage = "GENERATE" \/ GenerationStarted) =>
          \A c \in NPCs :
              Cardinality(DecisionsOf(c)) = (IF c \in present THEN 1 ELSE 0)

\* both NPCs are in the scene, decided in either order, one of them through
\* an unparsable response, and generation has run
C6_Witness ==
    /\ stage = "VALIDATE"
    /\ NPCs \subseteq present
    /\ Len(character_decisions) = 2
    /\ character_decisions[1].character_name = "jade"
    /\ decision_malformed["alex"] = 1

\* the deterministic safe default of the decision engine
SafeDefault(c) ==
    [character_name |-> c, action |-> "none", dialogue |-> "",
     emotion |-> "unchanged", refuses |-> FALSE]

\* C10: an unparsable decision response is retried exactly once, and when the
\* retry is unparsable too the decision is the safe default.
C10_MalformedRetriedThenDefault ==
    \A c \in NPCs :
        HasDecision(c) =>
            /\ decision_calls[c] = (IF decision_malformed[c] = 0 THEN 1 ELSE 2)
            /\ (decision_malformed[c] = 2) => (DecisionFor(c) = SafeDefault(c))
            /\ (decision_malformed[c] = 1 /\ decision_calls[c] = 1)
                   => (DecisionFor(c) = SafeDefault(c))

\* the number of times the Orchestrator retries a stage that timed out
StageRetryBudget == 1

\* the narration returned when a Turn fails
SystemErrorNarration == [kind |-> "system_error"]

\* C11: a Turn fails on a timeout only after the stage that timed out was
\* retried as often as the retry budget allows, and then the caller receives
\* the system-error narration.
C11_TimeoutRetriedThenSystemError ==
    (stage = "HTTP_500" /\ timeouts > 0) =>
        /\ timeouts = 1 + StageRetryBudget
        /\ "message" \in DOMAIN response
        /\ response.message = SystemErrorNarration

\* a step of the database updates failed: its error was logged
UpdateFailed ==
    /\ stage \in {"UPDATE_RELATIONSHIPS", "CHECK_PROGRESSION"}
    /\ logs' # logs

C18_VerdictFollowsSeverity ==
    [][ (stage = "VALIDATE" /\ stage' # "VALIDATE") =>
            IF KnownBad(issues')
            THEN (gen_calls <= RetryCeiling) => Phase(stage') \in {"DECISIONS", "GENERATE"}
            ELSE /\ stage' = "SAVE_RESPONSE"
                 /\ generated' = generated
                 /\ (issues' # {}) => ("warning" \in logs') ]_vars

(***************************************************************************)
(* Properties of the relationship updater and of the State Updater.        *)
(***************************************************************************)
InUnit(v) == 0 <= v /\ v <= Scale

\* C7: trust, affection, familiarity and closeness stay in [0,1], and the
\* change one Turn applies to trust or to affection is at most the per-turn
\* maximum, whatever change was requested.
C7_RelationshipBounded ==
    /\ InUnit(relationship.trust)
    /\ InUnit(relationship.affection)
    /\ InUnit(relationship.familiarity)
    /\ InUnit(relationship.closeness)
    /\ Abs(relationship_updates.trust) <= MaxDelta
    /\ Abs(relationship_updates.affection) <= MaxDelta

\* a Turn asked for more than the maximum in both directions and was applied
C7_Witness ==
    /\ stage = "CHECK_PROGRESSION"
    /\ analysis.trust > MaxDelta
    /\ relationship_updates.trust = MaxDelta
    /\ analysis.affection < 0 - MaxDelta
    /\ relationship_updates.affection = 0 - MaxDelta

\* C8: familiarity never decreases; a negative familiarity change is applied
\* as zero.
C8_FamiliarityNeverDecreases ==
    /\ [][relationship'.familiarity >= relationship.familiarity]_vars
    /\ [](analysis.familiarity < 0 => relationship_updates.familiarity = 0)

\* a Turn asked for a negative familiarity change on a row that could fall
C8_Witness ==
    /\ stage = "CHECK_PROGRESSION"
    /\ analysis.familiarity < 0
    /\ relationship.familiarity = 2

InCritical(u) ==
    upd_pc[u] \in {"read_relationship", "write_relationship", "read_state",
                   "write_state", "apply_rest", "release"}

BothApplied(p) ==
    LET e1 == upd_effect[<<p, 1>>]
        e2 == upd_effect[<<p, 2>>]
    IN  { ApplyEffect(ApplyEffect(TemplateRows, e1), e2),
          ApplyEffect(ApplyEffect(TemplateRows, e2), e1) }

\* C9: the State Updates of two Turns of one playthrough never interleave
\* their reads and writes of its rows, and when both have finished the rows
\* hold the effects of both Turns.
C9_SingleWriterNoLostUpdate ==
    /\ \A u, v \in Updates :
          (u # v /\ PlaythroughOf(u) = PlaythroughOf(v))
              => ~(InCritical(u) /\ InCritical(v))
    /\ (upd_pc[<<"p1", 1>>] = "done" /\ upd_pc[<<"p1", 2>>] = "done")
          => rows["p1"] \in BothApplied("p1")

\* Turn 2 was handed over while Turn 1's State Update was still pending and
\* ran first; both finished, and the order is visible in the rows
C9_Witness ==
    /\ upd_pc[<<"p1", 1>>] = "done"
    /\ upd_pc[<<"p1", 2>>] = "done"
    /\ rows["p1"] = ApplyEffect(ApplyEffect(TemplateRows, upd_effect[<<"p1", 2>>]),
                                upd_effect[<<"p1", 1>>])
    /\ rows["p1"] # ApplyEffect(ApplyEffect(TemplateRows, upd_effect[<<"p1", 1>>]),
                                upd_effect[<<"p1", 2>>])
TwiceClamped(row, d) ==
    [trust       |-> ClampUnit(row.trust + 2 * ClampDelta(d.trust)),
     affection   |-> ClampUnit(row.affection + 2 * ClampDelta(d.affection)),
     familiarity |-> ClampUnit(row.familiarity + 2 * ClampFamiliarity(d.familiarity)),
     closeness   |-> ClampUnit(row.closeness + 2 * ClampDelta(d.closeness))]

\* C15: the effects of a Turn applied twice as they come move every
\* relationship value by twice the clamped change, up to the bounds of the
\* value; applied twice behind the Turn-id guard they move it once.
C15_ReplayDoublesUnlessGuarded ==
    /\ (replay.naive_runs = 2) => (replay.naive = TwiceClamped(replay.start, replay.effect))
    /\ (replay.guarded_runs = 2) =>
          (replay.guarded = update_relationship_metrics(replay.start, replay.effect))
    /\ (replay.guarded_runs >= 1) =>
          (replay.guarded = update_relationship_metrics(replay.start, replay.effect))

\* both were applied twice: trust doubled to twice the maximum change in the
\* one, moved by the maximum change in the other
C15_Witness ==
    /\ replay.naive_runs = 2
    /\ replay.guarded_runs = 2
    /\ replay.effect.trust > MaxDelta
    /\ replay.naive.trust = replay.start.trust + 2 * MaxDelta
    /\ replay.guarded.trust = replay.start.trust + MaxDelta
    /\ replay.effect.affection < 0
    /\ replay.naive.affection = 0

(***************************************************************************)
(* Properties of context building and of a request whose client goes away. *)
(***************************************************************************)
\* C14: context building does not complete over a scene that has a character
\* without a Character row: the Turn ends in a system error before any
\* decision is made or text generated.
C14_MissingEntityFailsFast ==
    /\ (context # NoContext) => (context.characters \subseteq character_rows)
    /\ (stage # "CONTEXT" /\ context = NoContext) =>
          /\ stage = "HTTP_500"
          /\ character_decisions = <<>>
          /\ gen_calls = 0

Score(m) == m.importance * m.recency * m.relevance

\* C19: of a table with more memories than the budget, the context holds as
\* many memories as the budget allows, and no memory left out scores higher
\* than one that is in.
C19_TopKMemories ==
    (context # NoContext /\ Cardinality(DOMAIN memory_flags) > max_memory_flags) =>
        /\ Cardinality(context.memories) = max_memory_flags
        /\ \A i \in context.memories, j \in DOMAIN memory_flags \ context.memories :
              Score(memory_flags[i]) >= Score(memory_flags[j])

\* C16: once the client has gone away, no further model call of the Turn is
\* made and none of its effects is written.
C16_TeardownCommitsNothing ==
    [][ torn_down =>
           /\ decision_calls' = decision_calls
           /\ gen_calls' = gen_calls
           /\ conversations' = conversations
           /\ relationship' = relationship
           /\ story_flags_set' = story_flags_set ]_vars
(***************************************************************************)
(* Properties of the client.                                               *)
(***************************************************************************)
ServerDetailPresent(f) == f.kind = "response" /\ f.body.json /\ Truthy(f.body.detail)

\* C21: apiRequest returns the parsed data only for an OK response; for a
\* response that is not OK or a network failure it throws an Error, with the
\* server's detail when there is one and the HTTP status otherwise, and
\* returns no data.
C21_ApiRequestReturnsOnlyForOk ==
    \A i \in DOMAIN api_calls :
        LET f == api_calls[i].fetch
            r == api_calls[i].result
        IN /\ r.outcome \in {"return", "throw"}
           /\ r.outcome = "return" =>
                 /\ f.kind = "response" /\ f.ok
                 /\ r.data = f.body.data
           /\ (f.kind = "rejected" \/ ~f.ok) =>
                 /\ r.outcome = "throw"
                 /\ r.data = undefined
                 /\ ServerDetailPresent(f) => r.message = f.body.detail
                 /\ (f.kind = "response" /\ ~ServerDetailPresent(f)) =>
                       r.message = HttpMessage(f.status_code)

C21_Witness ==
    /\ \E i \in DOMAIN api_calls :
          api_calls[i].fetch.ok /\ api_calls[i].result.outcome = "return"
    /\ \E i \in DOMAIN api_calls :
          /\ ~api_calls[i].fetch.ok
          /\ api_calls[i].result.message = "Session not found"

\* what a loadSettings of a window loaded anew would obtain
LoadedLater == loadSettings(DefaultSettings, localStorage)

\* C24: the value given to updateSetting is the value a later loadSettings
\* obtains, for every key, and after resetToDefaults a later loadSettings
\* obtains the defaults; what is in use is what would be loaded.
C24_SettingsRoundTrip ==
    [][ /\ \A key \in SettingKeys : \A value \in SettingValues(key) :
              updateSetting(key, value) => LoadedLater'[key] = value
        /\ resetToDefaults => LoadedLater' = DefaultSettings
        /\ screen' # "loading" => LoadedLater' = CurrentSettings' ]_vars

C24_Witness ==
    /\ screen # "loading"
    /\ localStorage = saveSettings(CurrentSettings)
    /\ CurrentSettings.showRelationships = FALSE
    /\ CurrentSettings.showFlags = TRUE
    /\ CurrentSettings.apiUrl = "http://localhost:9000"

\* C25: at most one chat request of the ChatComponent is in flight at any
\* time, and while isLoading is true a call of sendMessage or generateMore
\* sends no request and adds no message.
C25_OneChatRequestInFlight ==
    [][ /\ Len(chat_requests') <= 1
        /\ ChatComponent.isLoading /\ (sendMessage \/ generateMore)
              => UNCHANGED <<chat_requests, chat_messages>> ]_vars

C25_Witness ==
    /\ ChatComponent.isLoading
    /\ Len(chat_requests) = 1
    /\ chat_requests[1].kind = "send"
    /\ chat_messages[Len(chat_messages)].speaker = "You"
    /\ controls.btn_send = "disabled"

\* C26: every message in the chat display belongs to the session that is
\* loaded in the ChatComponent.
C26_MessagesOfCurrentSession ==
    \A i \in DOMAIN chat_messages :
       chat_messages[i].session = ChatComponent.currentSession

\* C27: a chat request that settles, with a response or with an error, puts
\* isLoading back to false and enables the send button, the generate-more
\* button and the input; the chat is loading only while a request is pending.
C27_SettledMeansNotLoading ==
    [][ /\ \A i \in DOMAIN chat_requests :
              SettleChat(i) => /\ ~ChatComponent'.isLoading
                               /\ controls' = ControlsFor(FALSE)
        /\ ChatComponent'.isLoading => chat_requests' # <<>>
        /\ controls' = ControlsFor(ChatComponent'.isLoading) ]_vars

C27_Witness ==
    /\ ~ChatComponent.isLoading
    /\ chat_requests = <<>>
    /\ controls.btn_send = "enabled"
    /\ \E i \in DOMAIN chat_messages : chat_messages[i].speaker = "System"

\* C28: no chat request is still pending after the configured timeout of
\* API_CONFIG.timeout milliseconds: by then it has ended in an error and the
\* chat has left the loading state.
C28_TimeoutApplied ==
    \A i \in DOMAIN chat_requests :
       chat_requests[i].age * TickSeconds * 1000 <= API_CONFIG.timeout

\* C29: whenever AppState.currentPlaythrough and AppState.currentSession are
\* both set, the session is a session of that playthrough.
C29_SessionOfCurrentPlaythrough ==
    AppState.currentPlaythrough # null /\ AppState.currentSession # NoSession
       => AppState.currentSession.playthrough_id = AppState.currentPlaythrough

\* C30: loadPlaythrough creates a session for a playthrough only when the
\* playthrough has no session.
C30_CreateOnlyWithoutSession ==
    [][ \A p \in Playthroughs :
           session_count'[p] > session_count[p] => session_count[p] = 0 ]_vars

\* C22: a reset-playthrough or clear-test-data request is sent only when the
\* user confirmed the warning dialog of that action; declining sends nothing
\* and leaves the status display unchanged.
C22_DestructiveOnlyConfirmed ==
    [][ /\ \A i \in DOMAIN admin_requests' :
              admin_requests'[i].kind \in {"reset", "clear"}
                 => /\ admin_requests'[i].confirmed
                    /\ \/ \E j \in DOMAIN admin_requests :
                             admin_requests[j] = admin_requests'[i]
                       \/ dialog' = [action |-> admin_requests'[i].kind, answer |-> TRUE]
        /\ (resetCurrentPlaythrough \/ clearAllTestData) /\ ~dialog'.answer
              => UNCHANGED <<status, admin_requests>> ]_vars

C22_Witness ==
    /\ dialog = [action |-> "clear", answer |-> FALSE]
    /\ status.clear = ""
    /\ status.btn_clear = "enabled"
    /\ status.reset = "resetting"
    /\ \E i \in DOMAIN admin_requests :
          admin_requests[i].kind = "reset" /\ admin_requests[i].confirmed

\* C23: the Tester screen is shown and the TesterComponent initialised only
\* when a playthrough is selected; without one the Tester button leaves the
\* screen and the state of the Tester as they are.
C23_TesterNeedsPlaythrough ==
    [][ /\ screen' = "tester" /\ screen # "tester"
              => /\ AppState.currentPlaythrough # null
                 /\ TesterComponent'.currentPlaythrough = AppState.currentPlaythrough
        /\ screen' = "tester" => TesterComponent'.currentPlaythrough # null
        /\ TesterClick /\ AppState.currentPlaythrough = null
              => UNCHANGED <<screen, TesterComponent, admin_requests>> ]_vars

C23_Witness ==
    /\ screen = "tester"
    /\ AppState.currentPlaythrough = "p2"
    /\ TesterComponent.currentPlaythrough = "p2"
    /\ TesterComponent.currentSession = Session("p2", 1)
    /\ TesterComponent.container = [kind |-> "data", playthrough |-> "p2"]

(***************************************************************************)
(* Effects of a Turn and its verdict; the chat and the Tester displays.    *)
(***************************************************************************)
\* C31: the rows of the story state (the Relationship row, the story flags)
\* are changed only by a Turn whose validation verdict is VALID; a Turn whose
\* text has a critical or high violation changes none of them.
C31_EffectsOnlyForValid ==
    [][ /\ stage \in {"UPDATE_RELATIONSHIPS", "CHECK_PROGRESSION"}
        /\ \/ relationship' # relationship
           \/ story_flags_set' # story_flags_set
        => TurnVerdict = "VALID" ]_vars

\* C32: when a send request fails, the messages in the chat display stay,
\* the user's message among them, and exactly one message is appended: a
\* System message with the error, not a narrative of the Narrator.
C32_FailedSendAddsSystemMessage ==
    [][ \A i \in DOMAIN chat_requests : \A r \in ChatResults :
           chat_requests[i].kind = "send" /\ r.outcome = "throw" /\ SettleChatWith(i, r)
              => /\ Len(chat_messages') = Len(chat_messages) + 1
                 /\ SubSeq(chat_messages', 1, Len(chat_messages)) = chat_messages
                 /\ chat_messages'[Len(chat_messages')].speaker = "System"
                 /\ chat_messages'[Len(chat_messages')].text = r.message ]_vars

\* the send failed: the user's message is followed by the System message
C32_Witness ==
    /\ chat_requests = <<>>
    /\ Len(chat_messages) >= 2
    /\ chat_messages[Len(chat_messages)].speaker = "System"
    /\ chat_messages[Len(chat_messages)].text = "Session not found"
    /\ chat_messages[Len(chat_messages) - 1].speaker = "You"
    /\ chat_messages[Len(chat_messages) - 1].session =
          chat_messages[Len(chat_messages)].session

\* C33: sendMessage called with an empty or whitespace-only input, or with
\* no session loaded, sends no request and leaves the chat display, the
\* controls and isLoading unchanged.
C33_EmptySendChangesNothing ==
    [][ sendMessage /\ \/ \A k \in DOMAIN user_input : IsSpace(user_input[k])
                       \/ ChatComponent.currentSession = NoSession
           => UNCHANGED <<chat_requests, chat_messages, controls, ChatComponent>> ]_vars

\* the chat screen with no session loaded in the ChatComponent and a
\* whitespace-only input typed: sendMessage has nothing to send
C33_Witness ==
    /\ screen = "chat"
    /\ ChatComponent.currentSession = NoSession
    /\ user_input = <<" ">>
    /\ ~ChatComponent.isLoading
    /\ chat_requests = <<>>
    /\ chat_messages = <<>>

\* C34: once the requests of the Tester have ended, the data in its view
\* container is data of the playthrough the Tester was last initialised with;
\* after a load that failed no data of another playthrough is shown.
C34_TesterShowsOwnData ==
    admin_requests = <<>> /\ TesterComponent.container.kind = "data"
       => TesterComponent.container.playthrough = TesterComponent.currentPlaythrough

====
